---- MODULE Spec2Model ----
(***************************************************************************)
(* Model of gcp_project_cleanup.py: three read-only fetches, an in-memory  *)
(* join, a sort and a fixed-width table print.                             *)
(*                                                                         *)
(* A Python str is a sequence of one-character strings, so that split,     *)
(* rsplit, removeprefix, ljust, join and the lexicographic comparison are  *)
(* computed character by character, as the interpreter computes them.      *)
(***************************************************************************)
EXTENDS Integers, Sequences, FiniteSets, TLC

VARIABLES pc, show_inactive, assets, policies, recommendations,
          projects, owners, inactive, join_i,
          display_data, col_widths, row_i, out, raised

vars == <<pc, show_inactive, assets, policies, recommendations,
          projects, owners, inactive, join_i,
          display_data, col_widths, row_i, out, raised>>

(***************************************************************************)
(* Bounds of the model.                                                    *)
(***************************************************************************)
MaxProjects == 3
MaxPolicies == 2
MaxRecs == 1

(***************************************************************************)
(* Python str primitives.                                                  *)
(***************************************************************************)
Digits == <<"0", "1", "2", "3", "4", "5", "6", "7", "8", "9">>

Upper ==
  <<"A", "B", "C", "D", "E", "F", "G", "H", "I", "J", "K", "L", "M",
    "N", "O", "P", "Q", "R", "S", "T", "U", "V", "W", "X", "Y", "Z">>

Lower ==
  <<"a", "b", "c", "d", "e", "f", "g", "h", "i", "j", "k", "l", "m",
    "n", "o", "p", "q", "r", "s", "t", "u", "v", "w", "x", "y", "z">>

IndexOf(c, table) == CHOOSE i \in 1..Len(table) : table[i] = c

\* ord(c), for the ASCII characters that occur in the model's strings
Ord(c) ==
  CASE c = " " -> 32
    [] c = "," -> 44
    [] c = "-" -> 45
    [] c = "." -> 46
    [] c = "/" -> 47
    [] c \in {Digits[i] : i \in 1..10} -> 47 + IndexOf(c, Digits)
    [] c = ":" -> 58
    [] c = "@" -> 64
    [] c \in {Upper[i] : i \in 1..26} -> 64 + IndexOf(c, Upper)
    [] c = "_" -> 95
    [] c \in {Lower[i] : i \in 1..26} -> 96 + IndexOf(c, Lower)

Max(S) == CHOOSE m \in S : \A n \in S : n <= m

Min(S) == CHOOSE m \in S : \A n \in S : m <= n

\* s < t on str: the first differing character decides, a proper prefix is smaller
StrLess(s, t) ==
  LET common == {i \in 1..Len(s) : i <= Len(t) /\ \A k \in 1..i : s[k] = t[k]}
      n == IF common = {} THEN 0 ELSE Max(common)
  IN  IF n = Len(s) THEN n < Len(t)
      ELSE IF n = Len(t) THEN FALSE
      ELSE Ord(s[n + 1]) < Ord(t[n + 1])

\* the start positions at which sep occurs in s
Occurrences(s, sep) ==
  {i \in 1..(Len(s) - Len(sep) + 1) : SubSeq(s, i, i + Len(sep) - 1) = sep}

\* sep in s
Contains(s, sep) == Occurrences(s, sep) # {}

\* s.startswith(prefix)
StartsWith(s, prefix) ==
  Len(prefix) <= Len(s) /\ SubSeq(s, 1, Len(prefix)) = prefix

\* s.removeprefix(prefix)
RemovePrefix(s, prefix) ==
  IF StartsWith(s, prefix) THEN SubSeq(s, Len(prefix) + 1, Len(s)) ELSE s

\* s.split(sep): the pieces between the occurrences of sep found left to
\* right, each search resuming after the previous occurrence
RECURSIVE Split(_, _)
Split(s, sep) ==
  IF ~Contains(s, sep) THEN <<s>>
  ELSE LET i == Min(Occurrences(s, sep))
       IN  <<SubSeq(s, 1, i - 1)>> \o Split(SubSeq(s, i + Len(sep), Len(s)), sep)

\* s.rsplit(sep, 1): at most one split, at the rightmost occurrence of sep
RSplit1(s, sep) ==
  IF ~Contains(s, sep) THEN <<s>>
  ELSE LET i == Max(Occurrences(s, sep))
       IN  <<SubSeq(s, 1, i - 1), SubSeq(s, i + Len(sep), Len(s))>>

\* xs[-1]
Last(xs) == xs[Len(xs)]

\* c * n
Repeat(c, n) == [k \in 1..n |-> c]

\* s.ljust(width)
LJust(s, width) ==
  IF Len(s) >= width THEN s ELSE s \o Repeat(" ", width - Len(s))

\* sep.join(parts)
RECURSIVE Join(_, _)
Join(sep, parts) ==
  IF Len(parts) = 0 THEN <<>>
  ELSE IF Len(parts) = 1 THEN parts[1]
  ELSE parts[1] \o sep \o Join(sep, Tail(parts))

\* inserts x into the sorted list xs after every element that is not greater
RECURSIVE InsertStr(_, _)
InsertStr(xs, x) ==
  IF xs = <<>> THEN <<x>>
  ELSE IF StrLess(x, Head(xs)) THEN <<x>> \o xs
  ELSE <<Head(xs)>> \o InsertStr(Tail(xs), x)

\* sorted(xs) for a list of str
RECURSIVE SortedStr(_)
SortedStr(xs) ==
  IF xs = <<>> THEN <<>>
  ELSE InsertStr(SortedStr(SubSeq(xs, 1, Len(xs) - 1)), Last(xs))

\* variant of ListOfSet: the duplicates are kept
ListOfSet_KeepsDuplicates(xs) == {xs}

\* the lists list(set(xs)) can return: the distinct elements, in any order
ListOfSet(xs) ==
  LET S == {xs[i] : i \in 1..Len(xs)}
  IN  {ys \in [1..Cardinality(S) -> S] : {ys[i] : i \in 1..Cardinality(S)} = S}

(***************************************************************************)
(* String literals of the program.                                         *)
(***************************************************************************)
SegProjects == <<"/", "p", "r", "o", "j", "e", "c", "t", "s", "/">>

Slash == <<"/">>

At == <<"@">>

UserPrefix == <<"u", "s", "e", "r", ":">>

OwnerRole == "roles/owner"

CommaSpace == <<",", " ">>

Dash == <<"-">>

TwoSpaces == <<" ", " ">>

\* the column keys, which are also the header labels
ColumnText(col) ==
  CASE col = "display_name" -> <<"d", "i", "s", "p", "l", "a", "y", "_", "n", "a", "m", "e">>
    [] col = "owners" -> <<"o", "w", "n", "e", "r", "s">>
    [] col = "create_date" -> <<"c", "r", "e", "a", "t", "e", "_", "d", "a", "t", "e">>
    [] col = "project_id" -> <<"p", "r", "o", "j", "e", "c", "t", "_", "i", "d">>
    [] col = "inactive" -> <<"i", "n", "a", "c", "t", "i", "v", "e">>

\* str(b) for a bool
StrBool(b) == IF b THEN <<"T", "r", "u", "e">> ELSE <<"F", "a", "l", "s", "e">>

\* str(d) for a datetime.date: ISO form, zero padded
StrDate(d) ==
  <<Digits[((d.year \div 1000) % 10) + 1], Digits[((d.year \div 100) % 10) + 1],
    Digits[((d.year \div 10) % 10) + 1], Digits[(d.year % 10) + 1], "-",
    Digits[((d.month \div 10) % 10) + 1], Digits[(d.month % 10) + 1], "-",
    Digits[((d.day \div 10) % 10) + 1], Digits[(d.day % 10) + 1]>>

\* t.date() for a datetime: the time of day is dropped
DateOf(t) == [year |-> t.year, month |-> t.month, day |-> t.day]

(***************************************************************************)
(* What the three services can answer.  The host of a full resource name   *)
(* is abbreviated to //crm.                                                *)
(***************************************************************************)
Host == <<"/", "/", "c", "r", "m">>

ProjectName(id) == Host \o SegProjects \o id

ParentRef(number) == <<"p", "r", "o", "j", "e", "c", "t", "s", "/">> \o number

Asset(id, number, title, y, m, d, h) ==
  [name |-> ProjectName(id), project |-> ParentRef(number), display_name |-> title,
   create_time |-> [year |-> y, month |-> m, day |-> d, hour |-> h]]

AssetPool ==
  { Asset(<<"p", "1">>, <<"1", "0", "1">>, <<"A", "l", "p", "h", "a">>, 2020, 1, 1, 9),
    Asset(<<"p", "2">>, <<"1", "0", "2">>, <<"B">>, 2021, 6, 15, 0),
    Asset(<<"p", "3">>, <<"1", "0", "3">>, <<"G", "a", "m", "m", "a", "_", "p", "r", "o", "j", "e", "c", "t">>, 2019, 3, 3, 12),
    Asset(<<"p", "4">>, <<"1", "0", "4">>, <<"D", "e", "l", "t", "a">>, 2020, 1, 1, 23),
    \* a resource name without a /projects/ segment
    [name |-> Host \o <<"/", "f", "o", "l", "d", "e", "r", "s", "/", "f", "5">>,
     project |-> ParentRef(<<"1", "0", "5">>), display_name |-> <<"E">>,
     create_time |-> [year |-> 2022, month |-> 2, day |-> 2, hour |-> 1]],
    \* a parent reference without a slash
    [name |-> ProjectName(<<"p", "6">>),
     project |-> <<"1", "0", "6">>, display_name |-> <<"F">>,
     create_time |-> [year |-> 2022, month |-> 2, day |-> 2, hour |-> 1]] }

Member(kind, local, domain) == kind \o local \o At \o domain

Xio == <<"x", ".", "i", "o">>

Yio == <<"y", ".", "i", "o">>

Alice == <<"a", "l", "i", "c", "e">>

Bob == <<"b", "o", "b">>

Carol == <<"c", "a", "r", "o", "l">>

ServiceAccountPrefix ==
  <<"s", "e", "r", "v", "i", "c", "e", "A", "c", "c", "o", "u", "n", "t", ":">>

GroupPrefix == <<"g", "r", "o", "u", "p", ":">>

\* the policies the search can return, in the order it returns them
PolicyList ==
  << [resource |-> ProjectName(<<"p", "1">>),
      bindings |-> <<[role |-> OwnerRole,
                      members |-> <<Member(UserPrefix, Alice, Xio),
                                    Member(ServiceAccountPrefix, <<"s", "a">>, Xio)>>]>>],
     [resource |-> ProjectName(<<"p", "3">>),
      bindings |-> <<[role |-> OwnerRole,
                      members |-> <<Member(UserPrefix, Carol, Xio),
                                    Member(UserPrefix, Bob, Xio)>>],
                     [role |-> "roles/editor",
                      members |-> <<Member(UserPrefix, <<"e", "v", "e">>, Xio)>>]>>],
     \* a resource inside project p3, naming bob a second time
     [resource |-> ProjectName(<<"p", "3">>) \o <<"/", "z", "o", "n", "e", "s", "/", "z">>,
      bindings |-> <<[role |-> OwnerRole,
                      members |-> <<Member(UserPrefix, Bob, Yio),
                                    Member(GroupPrefix, <<"g">>, Xio)>>]>>],
     \* a policy of the organization itself
     [resource |-> Host \o <<"/", "o", "r", "g", "s", "/", "9">>,
      bindings |-> <<[role |-> OwnerRole,
                      members |-> <<Member(UserPrefix, <<"r", "o", "o", "t">>, Xio)>>]>>],
     \* a project whose only owner is a group
     [resource |-> ProjectName(<<"p", "4">>),
      bindings |-> <<[role |-> OwnerRole,
                      members |-> <<Member(GroupPrefix, <<"g">>, Xio)>>]>>] >>

Op(resource) == [resource |-> resource]

\* the recommendations the recommender can return, in the order it returns them
RecList ==
  << [operation_groups |->
        <<[operations |->
             <<Op(ProjectName(<<"1", "0", "2">>)),
               \* a resource with two /projects/ segments
               Op(ProjectName(<<"1", "0", "4">>) \o SegProjects \o <<"1", "0", "2">>)>>]>>],
     [operation_groups |->
        <<[operations |-> <<Op(Host \o <<"/", "o", "r", "g", "s", "/", "1", "0", "4">>)>>],
          [operations |->
             <<Op(ProjectName(<<"1", "0", "1">>) \o <<"/", "x">>),
               Op(ProjectName(<<"p", "3">>))>>]>>] >>

\* the lists of at most n distinct elements of S
DistinctSeqs(S, n) ==
  UNION {{xs \in [1..k -> S] : \A i, j \in 1..k : xs[i] = xs[j] => i = j} : k \in 0..n}

\* the elements of list at the positions in chosen, in the order of the list
RECURSIVE Pick(_, _)
Pick(list, chosen) ==
  IF list = <<>> THEN <<>>
  ELSE Pick(SubSeq(list, 1, Len(list) - 1), chosen)
         \o (IF Len(list) \in chosen THEN <<Last(list)>> ELSE <<>>)

\* the answers that return at most n elements of list, in the order of the list
Selections(list, n) ==
  {Pick(list, chosen) : chosen \in {c \in SUBSET (1..Len(list)) : Cardinality(c) <= n}}

AssetResponses == DistinctSeqs(AssetPool, MaxProjects)

PolicyResponses == Selections(PolicyList, MaxPolicies)

RecResponses == Selections(RecList, MaxRecs)

NoError == [type |-> "", where |-> ""]

Error(type, where) == [type |-> type, where |-> where]

EmptyDict == <<>>

TypeOK ==
  /\ pc \in {"fetch_projects", "fetch_project_owners", "fetch_inactive_project_numbers",
             "join", "sort", "print_report", "col_widths", "print_header",
             "print_separator", "print_rows", "done", "aborted"}
  /\ show_inactive \in BOOLEAN

Init ==
  /\ pc = "fetch_projects"
  /\ show_inactive \in BOOLEAN
  /\ assets = <<>>
  /\ policies = <<>>
  /\ recommendations = <<>>
  /\ projects = <<>>
  /\ owners = EmptyDict
  /\ inactive = {}
  /\ join_i = 1
  /\ display_data = <<>>
  /\ col_widths = EmptyDict
  /\ row_i = 1
  /\ out = <<>>
  /\ raised = NoError

(***************************************************************************)
(* fetch_projects                                                          *)
(***************************************************************************)
\* the two tuple unpackings of the loop body succeed
Unpacks(r) ==
  /\ Len(RSplit1(r.name, SegProjects)) = 2
  /\ Len(RSplit1(r.project, Slash)) = 2

ProjectRecord(r) ==
  [project_id |-> RSplit1(r.name, SegProjects)[2],
   project_number |-> RSplit1(r.project, Slash)[2],
   display_name |-> r.display_name,
   create_date |-> StrDate(DateOf(r.create_time))]

FetchProjectsResult(response) == [i \in 1..Len(response) |-> ProjectRecord(response[i])]

\* the search answers; the loop builds the records or stops at the first
\* result that does not unpack
FetchProjects ==
  /\ pc = "fetch_projects"
  /\ \E response \in AssetResponses :
       /\ assets' = response
       /\ IF \A i \in 1..Len(response) : Unpacks(response[i])
          THEN /\ projects' = FetchProjectsResult(response)
               /\ pc' = "fetch_project_owners"
               /\ raised' = raised
          ELSE /\ projects' = projects
               /\ pc' = "aborted"
               /\ raised' = Error("ValueError", "fetch_projects")
  /\ UNCHANGED <<show_inactive, policies, recommendations, owners, inactive, join_i,
                 display_data, col_widths, row_i, out>>

\* the search call raises (transport, authentication)
FetchProjectsFails ==
  /\ pc = "fetch_projects"
  /\ pc' = "aborted"
  /\ raised' = Error("APIError", "fetch_projects")
  /\ UNCHANGED <<show_inactive, assets, policies, recommendations, projects, owners,
                 inactive, join_i, display_data, col_widths, row_i, out>>

(***************************************************************************)
(* fetch_project_owners                                                    *)
(***************************************************************************)
\* policy.resource.split("/projects/")[-1].split("/")[0]
PolicyProjectId(resource) == Split(Last(Split(resource, SegProjects)), Slash)[1]

\* m.removeprefix("user:").split("@")[0]
Username(m) == Split(RemovePrefix(m, UserPrefix), At)[1]

\* the list comprehension over binding.members
RECURSIVE Usernames(_)
Usernames(members) ==
  IF members = <<>> THEN <<>>
  ELSE (IF StartsWith(Head(members), UserPrefix) THEN <<Username(Head(members))>> ELSE <<>>)
       \o Usernames(Tail(members))

\* d.setdefault(key, []).extend(xs)
SetDefaultExtend(d, key, xs) ==
  IF key \in DOMAIN d THEN [d EXCEPT ![key] = @ \o xs] ELSE d @@ (key :> xs)

\* the loop over policy.policy.bindings
RECURSIVE AddBindings(_, _, _)
AddBindings(d, project_id, bindings) ==
  IF bindings = <<>> THEN d
  ELSE AddBindings(IF Head(bindings).role = OwnerRole
                   THEN SetDefaultExtend(d, project_id, Usernames(Head(bindings).members))
                   ELSE d,
                   project_id, Tail(bindings))

\* the loop over the returned policies
RECURSIVE AddPolicies(_, _)
AddPolicies(d, response) ==
  IF response = <<>> THEN d
  ELSE AddPolicies(AddBindings(d, PolicyProjectId(Head(response).resource),
                               Head(response).bindings),
                   Tail(response))

\* the dictionaries the de-duplication loop can leave: each value becomes
\* list(set(value)), whose order is not determined
DedupResults(d) ==
  {e \in [DOMAIN d -> UNION {ListOfSet(d[k]) : k \in DOMAIN d}] :
     \A k \in DOMAIN d : e[k] \in ListOfSet(d[k])}

FetchProjectOwners ==
  /\ pc = "fetch_project_owners"
  /\ \E response \in PolicyResponses :
       /\ policies' = response
       /\ owners' \in DedupResults(AddPolicies(EmptyDict, response))
  /\ pc' = "fetch_inactive_project_numbers"
  /\ UNCHANGED <<show_inactive, assets, recommendations, projects, inactive, join_i,
                 display_data, col_widths, row_i, out, raised>>

FetchProjectOwnersFails ==
  /\ pc = "fetch_project_owners"
  /\ pc' = "aborted"
  /\ raised' = Error("APIError", "fetch_project_owners")
  /\ UNCHANGED <<show_inactive, assets, policies, recommendations, projects, owners,
                 inactive, join_i, display_data, col_widths, row_i, out>>

(***************************************************************************)
(* fetch_inactive_project_numbers                                          *)
(***************************************************************************)
\* op.resource.split("/projects/")[-1].split("/")[0]
OpProjectNumber(resource) == Split(Last(Split(resource, SegProjects)), Slash)[1]

OpsOf(group) == {group.operations[o] : o \in 1..Len(group.operations)}

GroupsOf(rec) == {rec.operation_groups[g] : g \in 1..Len(rec.operation_groups)}

AllOps(recs) == UNION {UNION {OpsOf(g) : g \in GroupsOf(recs[r])} : r \in 1..Len(recs)}

\* the three nested loops: the operations whose resource contains /projects/
InactiveNumbers(recs) ==
  {OpProjectNumber(op.resource) :
     op \in {o \in AllOps(recs) : Contains(o.resource, SegProjects)}}

FetchInactiveProjectNumbers ==
  /\ pc = "fetch_inactive_project_numbers"
  /\ \E response \in RecResponses :
       /\ recommendations' = response
       /\ inactive' = InactiveNumbers(response)
  /\ pc' = "join"
  /\ UNCHANGED <<show_inactive, assets, policies, projects, owners, join_i,
                 display_data, col_widths, row_i, out, raised>>

\* variant of FetchInactiveProjectNumbersFails: the error is caught and the
\* run goes on with an empty set
FetchInactiveProjectNumbersFails_Caught ==
  /\ pc = "fetch_inactive_project_numbers"
  /\ pc' = "join"
  /\ raised' = Error("APIError", "fetch_inactive_project_numbers")
  /\ UNCHANGED <<show_inactive, assets, policies, recommendations, projects, owners,
                 inactive, join_i, display_data, col_widths, row_i, out>>

FetchInactiveProjectNumbersFails ==
  /\ pc = "fetch_inactive_project_numbers"
  /\ pc' = "aborted"
  /\ raised' = Error("APIError", "fetch_inactive_project_numbers")
  /\ UNCHANGED <<show_inactive, assets, policies, recommendations, projects, owners,
                 inactive, join_i, display_data, col_widths, row_i, out>>

(***************************************************************************)
(* main: the join loop and the sort                                        *)
(***************************************************************************)
\* d.get(key, [])
DictGet(d, key) == IF key \in DOMAIN d THEN d[key] ELSE <<>>

\* variant of Joined: the inactive set is searched for the project_id
Joined_MatchesProjectId(p, d, numbers) ==
  [project_id |-> p.project_id,
   project_number |-> p.project_number,
   display_name |-> p.display_name,
   create_date |-> p.create_date,
   owners |-> DictGet(d, p.project_id),
   inactive |-> p.project_id \in numbers]

\* the body of the join loop, for one record
Joined(p, d, numbers) ==
  [project_id |-> p.project_id,
   project_number |-> p.project_number,
   display_name |-> p.display_name,
   create_date |-> p.create_date,
   owners |-> DictGet(d, p.project_id),
   inactive |-> p.project_number \in numbers]

\* variant of JoinStep: the owners are looked up under the project_number
JoinStep_OwnersByNumber ==
  /\ pc = "join"
  /\ join_i <= Len(projects)
  /\ projects' = [projects EXCEPT ![join_i] =
                    [Joined(@, owners, inactive) EXCEPT
                       !.owners = DictGet(owners, projects[join_i].project_number)]]
  /\ join_i' = join_i + 1
  /\ UNCHANGED <<pc, show_inactive, assets, policies, recommendations, owners, inactive,
                 display_data, col_widths, row_i, out, raised>>

JoinStep ==
  /\ pc = "join"
  /\ join_i <= Len(projects)
  /\ projects' = [projects EXCEPT ![join_i] = Joined(@, owners, inactive)]
  /\ join_i' = join_i + 1
  /\ UNCHANGED <<pc, show_inactive, assets, policies, recommendations, owners, inactive,
                 display_data, col_widths, row_i, out, raised>>

JoinDone ==
  /\ pc = "join"
  /\ join_i > Len(projects)
  /\ pc' = "sort"
  /\ UNCHANGED <<show_inactive, assets, policies, recommendations, projects, owners,
                 inactive, join_i, display_data, col_widths, row_i, out, raised>>

\* variant of SortKey: the flag is not negated
SortKey_NotNegated(p) == <<p.inactive, p.create_date>>

\* the sort key: (not p["inactive"], p["create_date"])
SortKey(p) == <<~p.inactive, p.create_date>>

\* variant of KeyLess: equal keys count as smaller
KeyLess_OrEqual(k1, k2) ==
  IF k1[1] # k2[1] THEN (~k1[1] /\ k2[1]) ELSE (k1[2] = k2[2] \/ StrLess(k1[2], k2[2]))

\* k1 < k2 on the key tuples: False < True, then the date strings
KeyLess(k1, k2) ==
  IF k1[1] # k2[1] THEN (~k1[1] /\ k2[1]) ELSE StrLess(k1[2], k2[2])

\* inserts p into the sorted list ps after every record whose key is not greater
RECURSIVE InsertByKey(_, _)
InsertByKey(ps, p) ==
  IF ps = <<>> THEN <<p>>
  ELSE IF KeyLess(SortKey(p), SortKey(Head(ps))) THEN <<p>> \o ps
  ELSE <<Head(ps)>> \o InsertByKey(Tail(ps), p)

\* list.sort(key=...): a stable sort, ascending in the key
RECURSIVE SortByKey(_)
SortByKey(ps) ==
  IF ps = <<>> THEN <<>>
  ELSE InsertByKey(SortByKey(SubSeq(ps, 1, Len(ps) - 1)), Last(ps))

Sort ==
  /\ pc = "sort"
  /\ projects' = SortByKey(projects)
  /\ pc' = "print_report"
  /\ UNCHANGED <<show_inactive, assets, policies, recommendations, owners, inactive,
                 join_i, display_data, col_widths, row_i, out, raised>>

(***************************************************************************)
(* print_report                                                            *)
(***************************************************************************)
\* variant of Headers: the optional column comes first
Headers_InactiveFirst(show) ==
  (IF show THEN <<"inactive">> ELSE <<>>)
    \o <<"display_name", "owners", "create_date", "project_id">>

Headers(show) ==
  <<"display_name", "owners", "create_date", "project_id">>
    \o (IF show THEN <<"inactive">> ELSE <<>>)

\* variant of OwnersStr: the usernames are joined in the order of the list
OwnersStr_Unsorted(os) == IF os # <<>> THEN Join(CommaSpace, os) ELSE Dash

\* ", ".join(sorted(p["owners"])) if p["owners"] else "-"
OwnersStr(os) == IF os # <<>> THEN Join(CommaSpace, SortedStr(os)) ELSE Dash

Row(p, show) ==
  LET row == [display_name |-> p.display_name,
              owners |-> OwnersStr(p.owners),
              create_date |-> p.create_date,
              project_id |-> p.project_id]
  IN  IF show THEN row @@ ("inactive" :> StrBool(p.inactive)) ELSE row

DisplayData(ps, show) == [i \in 1..Len(ps) |-> Row(ps[i], show)]

\* variant of ColWidth: the header label is not measured
ColWidth_IgnoresHeader(col, data) == Max({Len(data[i][col]) : i \in 1..Len(data)})

\* max(len(col), max(len(row[col]) for row in display_data)), display_data not empty
ColWidth(col, data) ==
  Max({Len(ColumnText(col)), Max({Len(data[i][col]) : i \in 1..Len(data)})})

ColWidths(headers, data) ==
  [col \in {headers[i] : i \in 1..Len(headers)} |-> ColWidth(col, data)]

\* "  ".join(cells[h].ljust(col_widths[h]) for h in headers)
FormatLine(cells, headers, widths) ==
  Join(TwoSpaces, [i \in 1..Len(headers) |-> LJust(cells[headers[i]], widths[headers[i]])])

HeaderCells(headers) ==
  [col \in {headers[i] : i \in 1..Len(headers)} |-> ColumnText(col)]

HeaderRow(headers, widths) == FormatLine(HeaderCells(headers), headers, widths)

\* the loop that builds display_data
BuildDisplayData ==
  /\ pc = "print_report"
  /\ display_data' = DisplayData(projects, show_inactive)
  /\ pc' = "col_widths"
  /\ UNCHANGED <<show_inactive, assets, policies, recommendations, projects, owners,
                 inactive, join_i, col_widths, row_i, out, raised>>

\* the loop that fills col_widths; max() of no rows raises ValueError
ComputeColWidths ==
  /\ pc = "col_widths"
  /\ IF display_data = <<>>
     THEN /\ pc' = "aborted"
          /\ raised' = Error("ValueError", "print_report")
          /\ col_widths' = col_widths
     ELSE /\ pc' = "print_header"
          /\ raised' = raised
          /\ col_widths' = ColWidths(Headers(show_inactive), display_data)
  /\ UNCHANGED <<show_inactive, assets, policies, recommendations, projects, owners,
                 inactive, join_i, display_data, row_i, out>>

PrintHeader ==
  /\ pc = "print_header"
  /\ out' = Append(out, HeaderRow(Headers(show_inactive), col_widths))
  /\ pc' = "print_separator"
  /\ UNCHANGED <<show_inactive, assets, policies, recommendations, projects, owners,
                 inactive, join_i, display_data, col_widths, row_i, raised>>

\* print("-" * len(header_row))
PrintSeparator ==
  /\ pc = "print_separator"
  /\ out' = Append(out, Repeat("-", Len(HeaderRow(Headers(show_inactive), col_widths))))
  /\ pc' = "print_rows"
  /\ UNCHANGED <<show_inactive, assets, policies, recommendations, projects, owners,
                 inactive, join_i, display_data, col_widths, row_i, raised>>

PrintRow ==
  /\ pc = "print_rows"
  /\ row_i <= Len(display_data)
  /\ out' = Append(out, FormatLine(display_data[row_i], Headers(show_inactive), col_widths))
  /\ row_i' = row_i + 1
  /\ UNCHANGED <<pc, show_inactive, assets, policies, recommendations, projects, owners,
                 inactive, join_i, display_data, col_widths, raised>>

PrintDone ==
  /\ pc = "print_rows"
  /\ row_i > Len(display_data)
  /\ pc' = "done"
  /\ UNCHANGED <<show_inactive, assets, policies, recommendations, projects, owners,
                 inactive, join_i, display_data, col_widths, row_i, out, raised>>

\* the lines one call of print_report writes for a non-empty list
ReportLines(ps, show) ==
  LET headers == Headers(show)
      data == DisplayData(ps, show)
      widths == ColWidths(headers, data)
  IN  <<HeaderRow(headers, widths), Repeat("-", Len(HeaderRow(headers, widths)))>>
        \o [i \in 1..Len(data) |-> FormatLine(data[i], headers, widths)]

Next ==
  \/ FetchProjects
  \/ FetchProjectsFails
  \/ FetchProjectOwners
  \/ FetchProjectOwnersFails
  \/ FetchInactiveProjectNumbers
  \/ FetchInactiveProjectNumbersFails
  \/ JoinStep
  \/ JoinDone
  \/ Sort
  \/ BuildDisplayData
  \/ ComputeColWidths
  \/ PrintHeader
  \/ PrintSeparator
  \/ PrintRow
  \/ PrintDone

Spec == Init /\ [][Next]_vars

(***************************************************************************)
(* Vocabulary of the properties, stated on the characters of the strings   *)
(* and not through the program's own helpers.                              *)
(***************************************************************************)
AfterSort ==
  {"print_report", "col_widths", "print_header", "print_separator", "print_rows", "done"}

AfterJoin == {"sort"} \cup AfterSort

Range(xs) == {xs[i] : i \in 1..Len(xs)}

DigitVal(c) == IndexOf(c, Digits) - 1

\* the calendar date an ISO string YYYY-MM-DD denotes, as one number
DateNum(s) ==
  10000 * (1000 * DigitVal(s[1]) + 100 * DigitVal(s[2]) + 10 * DigitVal(s[3]) + DigitVal(s[4]))
    + 100 * (10 * DigitVal(s[6]) + DigitVal(s[7]))
    + (10 * DigitVal(s[9]) + DigitVal(s[10]))

\* the positions at which the text /projects/ starts in s
ProjectsAt(s) ==
  {k \in 1..Len(s) : k + 9 <= Len(s) /\ \A d \in 1..10 : s[k + d - 1] = SegProjects[d]}

\* the text of s from position start up to the next slash
SegmentFrom(s, start) ==
  LET stops == {k \in start..Len(s) : s[k] = "/"}
  IN  SubSeq(s, start, IF stops = {} THEN Len(s) ELSE Min(stops) - 1)

\* the path segment that follows the last /projects/ of s (s itself counts
\* from its first character when it has none)
SegmentAfterProjects(s) ==
  SegmentFrom(s, IF ProjectsAt(s) = {} THEN 1 ELSE Max(ProjectsAt(s)) + 10)

IsUserMember(m) == Len(m) >= 5 /\ \A k \in 1..5 : m[k] = UserPrefix[k]

\* the text of a user: member between the prefix and the first @
LocalPart(m) ==
  LET ats == {k \in 6..Len(m) : m[k] = "@"}
  IN  SubSeq(m, 6, IF ats = {} THEN Len(m) ELSE Min(ats) - 1)

\* the usernames the returned policies grant the owner role on project id
GrantedOwners(id) ==
  UNION {UNION {{LocalPart(m) : m \in {x \in Range(b.members) : IsUserMember(x)}} :
                  b \in {y \in Range(pol.bindings) : y.role = "roles/owner"}} :
           pol \in {z \in Range(policies) : SegmentAfterProjects(z.resource) = id}}

\* the resources of all operations of all groups of the returned recommendations
RecommendedResources ==
  UNION {UNION {{op.resource : op \in Range(g.operations)} :
                  g \in Range(rec.operation_groups)} :
           rec \in Range(recommendations)}

\* the project numbers named by an operation of a returned recommendation
RecommendedNumbers ==
  {SegmentAfterProjects(res) : res \in {x \in RecommendedResources : ProjectsAt(x) # {}}}

P1 == <<"p", "1">>

P2 == <<"p", "2">>

P3 == <<"p", "3">>

Ids(ps) == [i \in 1..Len(ps) |-> ps[i].project_id]

\* the scenario: P1 2020-01-01 active, P2 2021-06-15 inactive, P3 2019-03-03 active
Scenario ==
  /\ Len(projects) = 3
  /\ Range(Ids(projects)) = {P1, P2, P3}
  /\ \A i \in 1..3 : projects[i].inactive <=> projects[i].project_id = P2

(***************************************************************************)
(* C1 as stated: of two rendered records A before B, either A is active    *)
(* and B inactive, or they agree on inactive and A's date is not later;    *)
(* the scenario renders P3, P1, P2.                                        *)
(***************************************************************************)
C1_ActiveBeforeInactive ==
  pc = "done" =>
    /\ \A i, j \in 1..Len(projects) :
         i < j =>
           \/ ~projects[i].inactive /\ projects[j].inactive
           \/ /\ projects[i].inactive = projects[j].inactive
              /\ DateNum(projects[i].create_date) <= DateNum(projects[j].create_date)
    /\ Scenario => Ids(projects) = <<P3, P1, P2>>

(***************************************************************************)
(* C1 amended: of two rendered records A before B, either A is inactive    *)
(* and B active, or they agree on inactive and A's date is not later; the  *)
(* scenario renders P2, P3, P1, and the rows are printed in that order.    *)
(***************************************************************************)
C1_InactiveBeforeActive ==
  pc = "done" =>
    /\ \A i, j \in 1..Len(projects) :
         i < j =>
           \/ projects[i].inactive /\ ~projects[j].inactive
           \/ /\ projects[i].inactive = projects[j].inactive
              /\ DateNum(projects[i].create_date) <= DateNum(projects[j].create_date)
    /\ Scenario => Ids(projects) = <<P2, P3, P1>>
    /\ Len(out) = Len(projects) + 2
    /\ \A i \in 1..Len(projects) : display_data[i].project_id = projects[i].project_id

C1_Witness ==
  /\ pc = "done"
  /\ Scenario
  /\ Ids(projects) = <<P2, P3, P1>>
  /\ Ids(FetchProjectsResult(assets)) = <<P1, P2, P3>>

(***************************************************************************)
(* C2 as stated: with no project, print_report ends normally having        *)
(* printed the header row and a dash line of the same length, nothing else.*)
(***************************************************************************)
C2_EmptyListPrintsHeaderAndSeparator ==
  (projects = <<>> /\ (pc = "done" \/ raised.where = "print_report")) =>
    /\ pc = "done"
    /\ raised = NoError
    /\ Len(out) = 2
    /\ Len(out[2]) = Len(out[1])
    /\ \A k \in 1..Len(out[2]) : out[2][k] = "-"

(***************************************************************************)
(* C3: after the join a record's owners are, without duplicates, exactly   *)
(* the local parts of the user: members of the roles/owner bindings of the *)
(* returned policies whose resource resolves to the record's project_id;   *)
(* other members contribute nothing, and an empty collection is rendered   *)
(* as "-".                                                                 *)
(***************************************************************************)
C3_OwnersAreGrantedUsers ==
  /\ pc \in {"sort", "done"} =>
       \A i \in 1..Len(projects) :
         /\ Range(projects[i].owners) = GrantedOwners(projects[i].project_id)
         /\ \A a, b \in 1..Len(projects[i].owners) :
              projects[i].owners[a] = projects[i].owners[b] => a = b
  /\ pc \in {"col_widths", "done"} =>
       \A i \in 1..Len(projects) :
         GrantedOwners(projects[i].project_id) = {} => display_data[i].owners = <<"-">>

C3_Witness ==
  /\ pc = "done"
  /\ \E i \in 1..Len(projects) :
       /\ projects[i].project_id = P3
       /\ Range(projects[i].owners) = {Bob, Carol}
       /\ Len(policies) = 2 /\ policies[1] # policies[2]
       /\ \A k \in 1..2 : SegmentAfterProjects(policies[k].resource) = P3
  /\ \E i \in 1..Len(projects) :
       /\ projects[i].project_id = <<"p", "4">>
       /\ display_data[i].owners = <<"-">>

(***************************************************************************)
(* C4: after the join a record is inactive exactly when its project_number *)
(* is the path segment after /projects/ in the resource of some operation  *)
(* of a returned recommendation; resources without /projects/ mark nothing *)
(* and the project_id is never matched.                                    *)
(***************************************************************************)
C4_InactiveIffNumberRecommended ==
  pc \in {"sort", "done"} =>
    \A i \in 1..Len(projects) :
      projects[i].inactive <=> projects[i].project_number \in RecommendedNumbers

C4_Witness ==
  /\ pc = "done"
  /\ \E i, j \in 1..Len(projects) :
       /\ projects[i].inactive
       /\ ~projects[j].inactive
       /\ projects[j].project_id \in RecommendedNumbers
  /\ \E res \in RecommendedResources : ProjectsAt(res) = {}

(***************************************************************************)
(* C5: a run in which a stage raised is aborted, nothing was printed in    *)
(* it, and it takes no further step (nothing is caught or retried).        *)
(***************************************************************************)
C5_FailFastNoOutput ==
  /\ raised # NoError => pc = "aborted" /\ out = <<>>
  /\ pc = "aborted" => raised # NoError /\ ~ENABLED Next
  /\ out # <<>> => raised = NoError

C5_Witness ==
  /\ pc = "aborted"
  /\ raised = Error("ValueError", "fetch_projects")
  /\ Len(assets) >= 2
  /\ out = <<>>

(***************************************************************************)
(* C6: for a non-empty list, every header and cell is padded with spaces   *)
(* to the width of its column, the maximum length of the column's label    *)
(* and cells; columns are two spaces apart; the separator is a line of     *)
(* dashes as long as the header row.                                       *)
(***************************************************************************)
Columns == <<"display_name", "owners", "create_date", "project_id", "inactive">>

Labels ==
  [display_name |-> <<"d", "i", "s", "p", "l", "a", "y", "_", "n", "a", "m", "e">>,
   owners |-> <<"o", "w", "n", "e", "r", "s">>,
   create_date |-> <<"c", "r", "e", "a", "t", "e", "_", "d", "a", "t", "e">>,
   project_id |-> <<"p", "r", "o", "j", "e", "c", "t", "_", "i", "d">>,
   inactive |-> <<"i", "n", "a", "c", "t", "i", "v", "e">>]

NumColumns == IF show_inactive THEN 5 ELSE 4

\* the width of column k: the longest of its label and its cells
Width(k) ==
  Max({Len(Labels[Columns[k]])}
        \cup {Len(display_data[i][Columns[k]]) : i \in 1..Len(display_data)})

\* line shows text in a column that starts at position off and is width
\* wide: the text, then spaces up to the width, then two more spaces unless
\* the column is the last one, where the line ends
ShowsCell(line, off, width, text, last) ==
  /\ SubSeq(line, off, off + Len(text) - 1) = text
  /\ \A x \in (off + Len(text))..(off + width - 1) : line[x] = " "
  /\ IF last
     THEN Len(line) = off + width - 1
     ELSE line[off + width] = " " /\ line[off + width + 1] = " "

C6_AlignedTable ==
  (pc = "done" /\ projects # <<>>) =>
    LET width == [k \in 1..NumColumns |-> Width(k)]
        \* the position at which column k starts: after the columns before
        \* it and two characters for each
        offset[k \in 1..NumColumns] == IF k = 1 THEN 1 ELSE offset[k - 1] + width[k - 1] + 2
    IN  /\ Len(out) = Len(display_data) + 2
        /\ \A k \in 1..NumColumns :
             /\ ShowsCell(out[1], offset[k], width[k], Labels[Columns[k]], k = NumColumns)
             /\ \A i \in 1..Len(display_data) :
                  ShowsCell(out[i + 2], offset[k], width[k], display_data[i][Columns[k]],
                            k = NumColumns)
        /\ Len(out[2]) = Len(out[1])
        /\ \A x \in 1..Len(out[2]) : out[2][x] = "-"

C6_Witness ==
  /\ pc = "done"
  /\ Len(projects) >= 2
  /\ Width(1) > Len(Labels.display_name)
  /\ Width(4) = Len(Labels.project_id)
  /\ \E i \in 1..Len(display_data) : Len(display_data[i].owners) > Len(Labels.owners)

(***************************************************************************)
(* C7: for the same records, the report without the inactive column is the *)
(* report with it minus that column: the same number of lines, and every   *)
(* line with the column is the line without it followed by two characters  *)
(* and the padded inactive column, so that the four other columns keep     *)
(* their widths, cells and row order.                                      *)
(***************************************************************************)
C7_FlagOnlyAddsInactiveColumn ==
  (pc = "done" /\ projects # <<>>) =>
    LET with == ReportLines(projects, TRUE)
        without == ReportLines(projects, FALSE)
        extra == 2 + Max({8} \cup {Len(StrBool(projects[i].inactive)) : i \in 1..Len(projects)})
    IN  /\ out = IF show_inactive THEN with ELSE without
        /\ Len(with) = Len(projects) + 2
        /\ Len(without) = Len(projects) + 2
        /\ \A n \in 1..Len(with) :
             /\ Len(with[n]) = Len(without[n]) + extra
             /\ SubSeq(with[n], 1, Len(without[n])) = without[n]
        /\ \A i \in 1..Len(projects) :
             SubSeq(with[i + 2], Len(without[i + 2]) + 1, Len(with[i + 2]))
               = <<" ", " ">> \o StrBool(projects[i].inactive)
                   \o Repeat(" ", extra - 2 - Len(StrBool(projects[i].inactive)))

C7_Witness ==
  /\ pc = "done"
  /\ ~show_inactive
  /\ Len(projects) = 3
  /\ \E i, j \in 1..3 : projects[i].inactive /\ ~projects[j].inactive
  /\ out # ReportLines(projects, TRUE)

(***************************************************************************)
(* C8: the printed text is determined by the three fetch results and the   *)
(* flag: whatever order the de-duplication gave the usernames, the output  *)
(* is the one any other order would have given.                            *)
(***************************************************************************)
JoinAll(ps, d, numbers) == [i \in 1..Len(ps) |-> Joined(ps[i], d, numbers)]

C8_OutputDeterminedByInputs ==
  pc = "done" =>
    \A d \in DedupResults(AddPolicies(EmptyDict, policies)) :
      out = ReportLines(SortByKey(JoinAll(FetchProjectsResult(assets), d,
                                          InactiveNumbers(recommendations))),
                        show_inactive)

C8_Witness ==
  /\ pc = "done"
  /\ \E i \in 1..Len(projects) : projects[i].owners = <<Carol, Bob>>
  /\ Cardinality(DedupResults(AddPolicies(EmptyDict, policies))) > 1

(***************************************************************************)
(* C9: the stages run one after another in the order inventory fetch,      *)
(* ownership fetch, inactivity fetch, join, sort, print; when the sort     *)
(* starts and whenever a line is printed, every record carries the owners  *)
(* and the inactive flag looked up under its own project_id and            *)
(* project_number.                                                         *)
(***************************************************************************)
StageOrder ==
  <<"fetch_projects", "fetch_project_owners", "fetch_inactive_project_numbers",
    "join", "sort", "print_report", "col_widths", "print_header", "print_separator",
    "print_rows", "done">>

Populated(p) ==
  /\ {"owners", "inactive"} \subseteq DOMAIN p
  /\ p.owners = (IF p.project_id \in DOMAIN owners THEN owners[p.project_id] ELSE <<>>)
  /\ p.inactive = (p.project_number \in inactive)

C9_StagesInOrderRecordsPopulated ==
  /\ [](pc \in AfterJoin => \A i \in 1..Len(projects) : Populated(projects[i]))
  /\ [](pc \in {"fetch_projects", "fetch_project_owners", "fetch_inactive_project_numbers",
                "join", "sort", "print_report", "col_widths", "print_header"}
          => out = <<>>)
  /\ [][/\ pc' # pc =>
             \/ pc' = "aborted"
             \/ \E k \in 1..(Len(StageOrder) - 1) : pc = StageOrder[k] /\ pc' = StageOrder[k + 1]
        /\ assets' # assets => pc = "fetch_projects"
        /\ policies' # policies => pc = "fetch_project_owners"
        /\ recommendations' # recommendations => pc = "fetch_inactive_project_numbers"
        /\ out' # out => pc \in {"print_header", "print_separator", "print_rows"}]_vars

C9_Witness ==
  /\ pc = "print_rows"
  /\ row_i = 2
  /\ Len(projects) >= 2
  /\ \E i \in 1..Len(projects) : projects[i].owners # <<>> /\ projects[i].inactive

(***************************************************************************)
(* C10: the sort is a stable permutation: the rendered rows are the        *)
(* fetched records, each once, and records with the same inactive value    *)
(* and the same create_date keep the order of the inventory fetch.         *)
(***************************************************************************)
Fetched == FetchProjectsResult(assets)

C10_StablePermutation ==
  pc = "done" =>
    /\ Len(projects) = Len(Fetched)
    /\ Len(out) = Len(Fetched) + 2
    /\ \E pi \in [1..Len(projects) -> 1..Len(projects)] :
         /\ \A i, j \in 1..Len(projects) : pi[i] = pi[j] => i = j
         /\ \A i \in 1..Len(projects) :
              /\ projects[i].project_id = Fetched[pi[i]].project_id
              /\ projects[i].project_number = Fetched[pi[i]].project_number
              /\ projects[i].display_name = Fetched[pi[i]].display_name
              /\ projects[i].create_date = Fetched[pi[i]].create_date
              /\ display_data[i].project_id = Fetched[pi[i]].project_id
              /\ display_data[i].display_name = Fetched[pi[i]].display_name
         /\ \A i, j \in 1..Len(projects) :
              (/\ i < j
               /\ projects[i].inactive = projects[j].inactive
               /\ projects[i].create_date = projects[j].create_date) => pi[i] < pi[j]

C10_Witness ==
  /\ pc = "done"
  /\ Len(projects) = 3
  /\ \E i \in 1..2 :
       /\ projects[i].create_date = projects[i + 1].create_date
       /\ projects[i].inactive = projects[i + 1].inactive
       /\ projects[i].project_id = <<"p", "4">>
       /\ projects[i + 1].project_id = P1

====
